---- MODULE Spec2Model ----
(***************************************************************************)
(* Model of skill-musicassistant's HTTP client                             *)
(* (skill_musicassistant/music_assistant_client.py) and of the skill's     *)
(* player resolver.  The client is synchronous and single threaded: every  *)
(* public method is one action, and the server's answers to the requests   *)
(* the method makes are the action's nondeterministic inputs.              *)
(*                                                                         *)
(* Strings that the code takes apart (the server url, device names, the    *)
(* location hint) are sequences of one-character strings; identifiers and  *)
(* command names, which the code only passes on or compares, are strings.  *)
(***************************************************************************)
EXTENDS Integers, Sequences, FiniteSets, TLC

VARIABLES
    server_url,      \* self.server_url
    api_url,         \* self.api_url
    session,         \* self.session
    default_player,  \* the skill's configured default player id
    sent_ids,        \* the message_id of every request posted so far
    post_count,      \* the number of session.post calls made so far
    last             \* the last completed call: its inputs, the requests it
                     \* posted, the responses it got and what it returned or raised

vars == <<server_url, api_url, session, default_player, sent_ids, post_count, last>>

(***************************************************************************)
(* Bounds of the model.                                                    *)
(***************************************************************************)
MaxPosts == 2        \* a call starts only while fewer requests than this were posted
MaxTokens == 3       \* size of the universe message ids are drawn from

(***************************************************************************)
(* Python values.                                                          *)
(***************************************************************************)
PyNone == [t |-> "none"]
PyList(items) == [t |-> "list", items |-> items]
PyDict(fields) == [t |-> "dict", fields |-> fields]

\* what a call does: it returns a value or it raises
Return(v) == [kind |-> "return", value |-> v]
\* requests.RequestException out of session.post: the request got no response
RaiseNetwork == [kind |-> "raise", type |-> "RequestException"]
\* ValueError out of response.json(): the body is not JSON
RaiseDecode == [kind |-> "raise", type |-> "ValueError"]
\* TypeError: iterating None, or `in` on an object that is no container
RaiseType == [kind |-> "raise", type |-> "TypeError"]
\* Exception(f"HTTP {response.status_code}: {response.text}")
RaiseHTTP(status_code, text) ==
    [kind |-> "raise", type |-> "Exception",
     message |-> [prefix |-> "HTTP", status_code |-> status_code, text |-> text]]

(***************************************************************************)
(* The server, as the client sees it: one response per request.            *)
(* response.json() either returns the decoded body or raises; a body that  *)
(* does not decode has json = Undecodable.                                 *)
(***************************************************************************)
Undecodable == [t |-> "undecodable"]
NetworkFailure == [net |-> "error"]
Response(status_code, body) ==
    [net |-> "ok", status_code |-> status_code, text |-> body.text, json |-> body.json]

\* the status codes the server answers with besides 200
OtherStatusCodes == {201, 500}

\* bodies the dispatcher's commands are answered with
NullBody == [text |-> "null", json |-> PyNone]
GarbageBody == [text |-> "Internal Server Error", json |-> Undecodable]
PlainBodies ==
    { NullBody,
      [text |-> "[]", json |-> PyList(<<>>)],
      [text |-> "{artists}", json |-> PyDict([artists |-> PyList(<<>>)])],
      GarbageBody }

PlainResponses ==
    {NetworkFailure}
        \cup {Response(200, b) : b \in PlainBodies}
        \cup {Response(s, b) : s \in OtherStatusCodes, b \in {NullBody, GarbageBody}}

(***************************************************************************)
(* SimpleHTTPMusicAssistantClient.__init__                                 *)
(***************************************************************************)
RECURSIVE rstrip(_, _)
\* str.rstrip(chars) for a one-character chars
rstrip(s, c) ==
    IF s # <<>> /\ s[Len(s)] = c THEN rstrip(SubSeq(s, 1, Len(s) - 1), c) ELSE s

ApiSuffix == <<"/", "a", "p", "i">>

\* the server_url argument of the constructor
ServerUrlInputs == { <<"h">>, <<"h", "/", "m", "/", "/">> }
\* the session argument of the constructor: None or a session of the caller's
SessionInputs == {"None", "callers_session"}

ClientInit(url, sess) ==
    /\ server_url = rstrip(url, "/")
    /\ api_url = rstrip(url, "/") \o ApiSuffix
    /\ session = IF sess = "None" THEN "requests.Session()" ELSE sess

(***************************************************************************)
(* send_command                                                            *)
(***************************************************************************)
Tokens == 1 .. MaxTokens

\* a token that an earlier request carried is handed out again
uuid4_reused == IF sent_ids = {} THEN Tokens ELSE sent_ids

\* uuid.uuid4().hex: the values one more call of the generator may return
uuid4 == Tokens \ sent_ids

\* the request is built without the caller's arguments
send_command_drop_args(command, args, message_id, response) ==
    [sent |-> <<[url |-> api_url,
                 json |-> [command |-> command, message_id |-> message_id, args |-> <<>>]]>>,
     result |-> IF response.net = "error" THEN RaiseNetwork
                ELSE IF response.status_code = 200
                     THEN IF response.json = Undecodable THEN RaiseDecode
                          ELSE Return(response.json)
                     ELSE RaiseHTTP(response.status_code, response.text)]

\* a command equal to the previous one is answered from the previous call
send_command_cached(command, args, message_id, response) ==
    LET post == [url |-> api_url,
                 json |-> [command |-> command, message_id |-> message_id, args |-> args]]
        same == /\ last.sent # <<>>
                /\ last.sent[Len(last.sent)].json.command = command
                /\ last.sent[Len(last.sent)].json.args = args
    IN [sent |-> IF same THEN <<>> ELSE <<post>>,
        result |-> IF response.net = "error" THEN RaiseNetwork
                   ELSE IF response.status_code = 200
                        THEN IF response.json = Undecodable THEN RaiseDecode
                             ELSE Return(response.json)
                        ELSE RaiseHTTP(response.status_code, response.text)]

\* the status is not looked at
send_command_no_status_check(command, args, message_id, response) ==
    [sent |-> <<[url |-> api_url,
                 json |-> [command |-> command, message_id |-> message_id, args |-> args]]>>,
     result |-> IF response.net = "error" THEN RaiseNetwork
                ELSE IF response.json = Undecodable THEN RaiseDecode
                     ELSE Return(response.json)]

\* errors are swallowed and None is returned
send_command_swallow(command, args, message_id, response) ==
    [sent |-> <<[url |-> api_url,
                 json |-> [command |-> command, message_id |-> message_id, args |-> args]]>>,
     result |-> IF response.net = "error" THEN Return(PyNone)
                ELSE IF response.status_code = 200
                     THEN IF response.json = Undecodable THEN Return(PyNone)
                          ELSE Return(response.json)
                     ELSE RaiseHTTP(response.status_code, response.text)]

\* send_command(command, **args) with the token uuid4 gave and the response
\* the server gives: the requests it posts and what it returns or raises
send_command(command, args, message_id, response) ==
    [sent |-> <<[url |-> api_url,
                 json |-> [command |-> command, message_id |-> message_id, args |-> args]]>>,
     result |-> IF response.net = "error" THEN RaiseNetwork
                ELSE IF response.status_code = 200
                     THEN IF response.json = Undecodable THEN RaiseDecode
                          ELSE Return(response.json)
                     ELSE RaiseHTTP(response.status_code, response.text)]

(***************************************************************************)
(* The thin command wrappers: each is `return self.send_command(...)`.     *)
(* A wrapper is modelled by the command and the keyword arguments it       *)
(* passes on.                                                              *)
(***************************************************************************)
\* search_media puts media_types into the arguments whatever they are
search_media_always_types(query, media_types, limit) ==
    [command |-> "music/search",
     args |-> [search_query |-> query, limit |-> limit, media_types |-> media_types]]

\* `if media_types:` is false for None and for the empty list
search_media(query, media_types, limit) ==
    [command |-> "music/search",
     args |-> IF media_types.t = "list" /\ media_types.items # <<>>
              THEN [search_query |-> query, limit |-> limit, media_types |-> media_types]
              ELSE [search_query |-> query, limit |-> limit]]

\* play_media sends the uri it was built around, not the caller's
play_media_fixed_uri(queue_id, media, option, radio_mode) ==
    [command |-> "player_queues/play_media",
     args |-> [queue_id |-> queue_id, media |-> "library://artist/204", option |-> option,
               radio_mode |-> radio_mode]]

play_media(queue_id, media, option, radio_mode) ==
    [command |-> "player_queues/play_media",
     args |-> [queue_id |-> queue_id, media |-> media, option |-> option,
               radio_mode |-> radio_mode]]

queue_command_play(queue_id) ==
    [command |-> "player_queues/play", args |-> [queue_id |-> queue_id]]

queue_command_pause(queue_id) ==
    [command |-> "player_queues/pause", args |-> [queue_id |-> queue_id]]

queue_command_next(queue_id) ==
    [command |-> "player_queues/next", args |-> [queue_id |-> queue_id]]

queue_command_previous(queue_id) ==
    [command |-> "player_queues/previous", args |-> [queue_id |-> queue_id]]

player_command_power_on(player_id) ==
    [command |-> "players/player_command_power_on", args |-> [player_id |-> player_id]]

player_command_power_off(player_id) ==
    [command |-> "players/player_command_power_off", args |-> [player_id |-> player_id]]

player_command_volume_set(player_id, volume) ==
    [command |-> "players/cmd/volume_set",
     args |-> [player_id |-> player_id, volume_level |-> volume]]

player_command_volume_up(player_id, step) ==
    [command |-> "players/cmd/volume_up", args |-> [player_id |-> player_id, step |-> step]]

player_command_volume_down(player_id, step) ==
    [command |-> "players/cmd/volume_down", args |-> [player_id |-> player_id, step |-> step]]

player_command_volume_mute(player_id, muted) ==
    [command |-> "players/cmd/volume_mute", args |-> [player_id |-> player_id, muted |-> muted]]

get_player_queue_items(queue_id, limit, offset) ==
    [command |-> "player_queues/items",
     args |-> [queue_id |-> queue_id, limit |-> limit, offset |-> offset]]

get_active_queue(player_id) ==
    [command |-> "player_queues/get_active_queue", args |-> [player_id |-> player_id]]

\* the keys of a decoded JSON object, in the order iteration gives them; the
\* objects the model draws have one key
DictKeys(fields) == <<CHOOSE k \in DOMAIN fields : TRUE>>

RECURSIVE Reverse(_)
Reverse(q) == IF q = <<>> THEN <<>> ELSE Append(Reverse(Tail(q)), Head(q))

\* the list is returned in the opposite order
get_players_reversed(r) ==
    IF r.kind = "raise" THEN r
    ELSE IF r.value.t = "list" THEN Return(PyList(Reverse(r.value.items)))
    ELSE IF r.value.t = "dict" THEN Return(PyList(DictKeys(r.value.fields)))
    ELSE RaiseType

\* the first element of the result is lost
get_players_skip_first(r) ==
    IF r.kind = "raise" THEN r
    ELSE IF r.value.t = "list"
         THEN Return(PyList(IF r.value.items = <<>> THEN <<>> ELSE Tail(r.value.items)))
    ELSE IF r.value.t = "dict" THEN Return(PyList(DictKeys(r.value.fields)))
    ELSE RaiseType

\* get_players: result = self.send_command("players/all");
\*              return [player_data for player_data in result]
get_players_of(r) ==
    IF r.kind = "raise" THEN r
    ELSE IF r.value.t = "list" THEN Return(PyList(r.value.items))
    ELSE IF r.value.t = "dict" THEN Return(PyList(DictKeys(r.value.fields)))
    ELSE RaiseType

(***************************************************************************)
(* Inputs of the calls.                                                    *)
(***************************************************************************)
\* a keyword argument the caller passes, or leaves to its default
Given(v) == [given |-> TRUE, v |-> v]
Omitted == [given |-> FALSE]

\* the caller's value is dropped: the parameter is always bound to the default
Default_always(argument, default) == default

\* the value a parameter is bound to
Default(argument, default) == IF argument.given THEN argument.v ELSE default

\* the defaults of the wrappers' signatures
DefaultStep == 5
DefaultMuted == TRUE
DefaultLimit == 10
DefaultOffset == 0
DefaultSearchLimit == 5
DefaultOption == "play"
DefaultRadioMode == FALSE

Ids == {"p1", "p2"}
OneId == {"p1"}
Volumes == {0, 50}
Steps == {Omitted, Given(10)}
Limits == {Omitted, Given(3)}
Offsets == {Omitted, Given(2)}
Muted == {Omitted, Given(FALSE)}
RadioModes == {Omitted, Given(TRUE)}
Queries == {"Carbon Leaf"}
MediaTypeInputs == {PyNone, PyList(<<>>), PyList(<<"artist">>)}
SearchLimits == {Omitted, Given(3)}
MediaUris == {"library://artist/204"}
QueueOptions == {Omitted, Given("replace")}

\* the commands send_command is called with directly, and their arguments
DirectCommands == {"test/command", "players/all"}
DirectArgs == { <<>>, [player_id |-> "p1"] }

(***************************************************************************)
(* Actions.  A call starts while fewer than MaxPosts requests were posted. *)
(***************************************************************************)
ClientUnchanged == UNCHANGED <<server_url, api_url, session, default_player>>

\* the bookkeeping of a finished call
Finish(op, inputs, sent, responses, result) ==
    /\ sent_ids' = sent_ids \cup { sent[i].json.message_id : i \in DOMAIN sent }
    /\ post_count' = post_count + Len(sent)
    /\ last' = [op |-> op, inputs |-> inputs, sent |-> sent, responses |-> responses,
                result |-> result,
                repeat |-> (last.op = op /\ last.inputs = inputs)]

\* what the wrappers' requests are answered with: send_command treats a
\* wrapper's request as any other, so one response of each kind is drawn
WrapperResponses ==
    { NetworkFailure, Response(200, NullBody), Response(200, GarbageBody),
      Response(200, [text |-> "{artists}", json |-> PyDict([artists |-> PyList(<<>>)])]),
      Response(500, GarbageBody) }

\* a Media reference of a search result, as the server's JSON has it
MediaReference(media_type, uri, name) ==
    [t |-> "media_reference", media_type |-> media_type, uri |-> uri, name |-> name]

\* a search result with one artist and one track
FoundBody ==
    [text |-> "{artists, tracks}",
     json |-> PyDict([artists |-> PyList(<<MediaReference("artist", "library://artist/7",
                                                          "Carbon Leaf")>>),
                      tracks |-> PyList(<<MediaReference("track", "spotify://track/AbC%20d/",
                                                         "Life Less Ordinary")>>)])]

\* what music/search is answered with
SearchResponses ==
    { NetworkFailure, Response(200, GarbageBody), Response(200, FoundBody),
      Response(200, [text |-> "{artists}", json |-> PyDict([artists |-> PyList(<<>>)])]),
      Response(500, GarbageBody) }

ResponsesOf(op) ==
    IF op = "send_command" THEN PlainResponses
    ELSE IF op = "search_media" THEN SearchResponses
    ELSE WrapperResponses

\* the Media references of a search result
References(value) ==
    IF value.t = "dict"
    THEN UNION { { value.fields[k].items[n] : n \in DOMAIN value.fields[k].items } :
                   k \in DOMAIN value.fields }
    ELSE {}

\* the uris of the references the search just made returned
ReturnedUris ==
    IF last.op = "search_media" /\ last.result.kind = "return"
    THEN { reference.uri : reference \in References(last.result.value) }
    ELSE {}

\* a call that is one send_command
Thin(op, inputs, call) ==
    /\ post_count < MaxPosts
    /\ \E message_id \in uuid4, response \in ResponsesOf(op) :
          LET r == send_command(call.command, call.args, message_id, response)
          IN Finish(op, inputs, r.sent, <<response>>, r.result)
    /\ ClientUnchanged

SendCommand ==
    \E command \in DirectCommands, args \in DirectArgs :
        Thin("send_command", [command |-> command, args |-> args],
             [command |-> command, args |-> args])

GetPlayers ==
    /\ post_count < MaxPosts
    /\ \E message_id \in uuid4, response \in PlainResponses :
          LET r == send_command("players/all", <<>>, message_id, response)
          IN Finish("get_players", <<>>, r.sent, <<response>>, get_players_of(r.result))
    /\ ClientUnchanged

SearchMedia ==
    \E query \in Queries, media_types \in MediaTypeInputs, limit \in SearchLimits :
        Thin("search_media", [query |-> query, media_types |-> media_types, limit |-> limit],
             search_media(query, media_types, Default(limit, DefaultSearchLimit)))

PlayMedia ==
    \E queue_id \in OneId, media \in MediaUris \cup ReturnedUris,
       option \in QueueOptions, radio_mode \in RadioModes :
        Thin("play_media",
             [queue_id |-> queue_id, media |-> media, option |-> option,
              radio_mode |-> radio_mode],
             play_media(queue_id, media, Default(option, DefaultOption),
                        Default(radio_mode, DefaultRadioMode)))

QueueCommandPlay ==
    \E queue_id \in OneId :
        Thin("queue_command_play", [queue_id |-> queue_id], queue_command_play(queue_id))

QueueCommandPause ==
    \E queue_id \in Ids :
        Thin("queue_command_pause", [queue_id |-> queue_id], queue_command_pause(queue_id))

QueueCommandNext ==
    \E queue_id \in OneId :
        Thin("queue_command_next", [queue_id |-> queue_id], queue_command_next(queue_id))

QueueCommandPrevious ==
    \E queue_id \in OneId :
        Thin("queue_command_previous", [queue_id |-> queue_id],
             queue_command_previous(queue_id))

PlayerCommandPowerOn ==
    \E player_id \in OneId :
        Thin("player_command_power_on", [player_id |-> player_id],
             player_command_power_on(player_id))

PlayerCommandPowerOff ==
    \E player_id \in OneId :
        Thin("player_command_power_off", [player_id |-> player_id],
             player_command_power_off(player_id))

PlayerCommandVolumeSet ==
    \E player_id \in OneId, volume \in Volumes :
        Thin("player_command_volume_set", [player_id |-> player_id, volume |-> volume],
             player_command_volume_set(player_id, volume))

PlayerCommandVolumeUp ==
    \E player_id \in OneId, step \in Steps :
        Thin("player_command_volume_up", [player_id |-> player_id, step |-> step],
             player_command_volume_up(player_id, Default(step, DefaultStep)))

PlayerCommandVolumeDown ==
    \E player_id \in OneId, step \in Steps :
        Thin("player_command_volume_down", [player_id |-> player_id, step |-> step],
             player_command_volume_down(player_id, Default(step, DefaultStep)))

PlayerCommandVolumeMute ==
    \E player_id \in OneId, muted \in Muted :
        Thin("player_command_volume_mute", [player_id |-> player_id, muted |-> muted],
             player_command_volume_mute(player_id, Default(muted, DefaultMuted)))

GetPlayerQueueItems ==
    \E queue_id \in OneId, limit \in Limits, offset \in Offsets :
        Thin("get_player_queue_items",
             [queue_id |-> queue_id, limit |-> limit, offset |-> offset],
             get_player_queue_items(queue_id, Default(limit, DefaultLimit),
                                    Default(offset, DefaultOffset)))

GetActiveQueue ==
    \E player_id \in OneId :
        Thin("get_active_queue", [player_id |-> player_id], get_active_queue(player_id))

(***************************************************************************)
(* The dispatcher: the client after construction, then any sequence of     *)
(* send_command and wrapper calls.                                         *)
(***************************************************************************)
NoCall ==
    [op |-> "init", inputs |-> <<>>, sent |-> <<>>, responses |-> <<>>,
     result |-> Return(PyNone), repeat |-> FALSE]

\* the constructions the calls are made on: a bare url with the default
\* session, and a url with trailing slashes with a session of the caller's
Constructions ==
    { c \in [server_url : ServerUrlInputs, session : SessionInputs] :
        (c.server_url = <<"h">>) <=> (c.session = "None") }

Init ==
    /\ \E c \in Constructions : ClientInit(c.server_url, c.session)
    /\ default_player = PyNone
    /\ sent_ids = {}
    /\ post_count = 0
    /\ last = NoCall

Next ==
    \/ SendCommand
    \/ GetPlayers
    \/ SearchMedia
    \/ PlayMedia
    \/ QueueCommandPlay
    \/ QueueCommandPause
    \/ QueueCommandNext
    \/ QueueCommandPrevious
    \/ PlayerCommandPowerOn
    \/ PlayerCommandPowerOff
    \/ PlayerCommandVolumeSet
    \/ PlayerCommandVolumeUp
    \/ PlayerCommandVolumeDown
    \/ PlayerCommandVolumeMute
    \/ GetPlayerQueueItems
    \/ GetActiveQueue

Spec == Init /\ [][Next]_vars

(***************************************************************************)
(* Claims about the dispatcher, checked under Spec.                        *)
(***************************************************************************)
IsCall == last.op # "init"

\* a response with status 200 and a body that decodes: what send_command
\* takes for success
Succeeded(response) ==
    response.net = "ok" /\ response.status_code = 200 /\ response.json # Undecodable

\* C1: every send_command(name, args) posts exactly one request, to
\* <server base>/api, whether it then returns or raises; the posted body is
\* {command: name, message_id: token, args: args} with args the caller's
\* mapping (empty when none are given); on success the decoded response body
\* is returned unchanged.
C1_OnePostWithEnvelope ==
    (IsCall => Len(last.sent) = 1 /\ Len(last.responses) = 1)
    /\ (last.op = "send_command" =>
          /\ last.sent[1].url = server_url \o ApiSuffix
          /\ server_url = rstrip(server_url, "/")
          /\ DOMAIN last.sent[1].json = {"command", "message_id", "args"}
          /\ last.sent[1].json.command = last.inputs.command
          /\ last.sent[1].json.args = last.inputs.args
          /\ last.sent[1].json.message_id \in Tokens
          /\ (Succeeded(last.responses[1])
                => last.result = Return(last.responses[1].json))
          /\ (last.result.kind = "return"
                => last.result.value = last.responses[1].json))

\* C1's case: a send_command with arguments came back with a decoded mapping
C1_Witness ==
    /\ last.op = "send_command"
    /\ last.inputs.args # <<>>
    /\ last.result.kind = "return"
    /\ last.result.value.t = "dict"

\* C2: over any sequence of calls the message ids of all requests sent are
\* pairwise distinct: as many different ids were sent as requests were posted,
\* and the ids of one call's requests differ from each other.
C2_MessageIdsDistinct ==
    /\ Cardinality(sent_ids) = post_count
    /\ \A i, j \in DOMAIN last.sent :
          i # j => last.sent[i].json.message_id # last.sent[j].json.message_id

\* C2's case: the same call made twice in a row, the first of them failed
C2_Witness ==
    /\ post_count >= 2
    /\ last.repeat
    /\ last.result.kind = "raise"

\* C3 as claimed: a non-2xx status raises the HTTP error with the status and
\* the body text, and every 2xx status with a decodable body returns the
\* decoded body.
C3_Claim_2xxReturnsBody ==
    (last.op = "send_command" /\ last.responses[1].net = "ok") =>
        LET response == last.responses[1]
            is2xx == response.status_code >= 200 /\ response.status_code <= 299
        IN /\ (~is2xx => last.result = RaiseHTTP(response.status_code, response.text))
           /\ (is2xx /\ response.json # Undecodable => last.result = Return(response.json))

\* C4: a network failure while posting, and a success-status response whose
\* body does not decode, reach the caller of send_command and of every
\* wrapper as an error: no value is returned in those cases.
C4_FailuresSurface ==
    IsCall =>
        LET response == last.responses[1]
        IN /\ (response.net = "error" => last.result = RaiseNetwork)
           /\ (response.net = "ok" /\ response.status_code = 200
                 /\ response.json = Undecodable => last.result = RaiseDecode)
           /\ (response.net = "ok" /\ response.status_code >= 200
                 /\ response.status_code <= 299 /\ response.json = Undecodable
                 => last.result.kind = "raise")

\* C4's case: a wrapper got status 200 with a body that is not JSON
C4_Witness ==
    /\ last.op = "queue_command_pause"
    /\ last.responses[1].net = "ok"
    /\ last.responses[1].status_code = 200
    /\ last.responses[1].json = Undecodable
    /\ last.result = RaiseDecode

\* C5: dispatch is stateless: a call, also one that repeats the call before
\* it and also one that fails, posts one request of its own with an id no
\* earlier request had, and leaves server_url, api_url and the session as
\* they were.
C5_StatelessDispatch ==
    [][ /\ server_url' = server_url
        /\ api_url' = api_url
        /\ session' = session
        /\ post_count' = post_count + 1
        /\ Len(last'.sent) = 1
        /\ last'.sent[1].json.message_id \notin sent_ids ]_vars

\* C5's case: queue_command_pause on the same queue twice in a row
C5_Witness ==
    /\ last.op = "queue_command_pause"
    /\ last.repeat
    /\ post_count = 2
    /\ last.result = Return(PyNone)

(***************************************************************************)
(* Device records.  The server's payload for a device is either a plain    *)
(* key/value mapping (what response.json() decodes) or an object bearing   *)
(* attributes; a field the device does not have is Absent.                 *)
(***************************************************************************)
Absent == [t |-> "absent"]
PyStr(s) == [t |-> "str", s |-> s]
\* a string the code takes apart, as its characters
Text(chars) == [t |-> "text", chars |-> chars]

\* bool(v) of a Python value the model holds
Truthy(v) ==
    CASE v.t = "none" -> FALSE
      [] v.t = "absent" -> FALSE
      [] v.t = "str" -> v.s # ""
      [] v.t = "text" -> v.chars # <<>>
      [] v.t = "list" -> v.items # <<>>
      [] OTHER -> TRUE

\* a device with an id and a display name and nothing else
Player(repr, player_id, name) ==
    [t |-> "player", repr |-> repr, player_id |-> PyStr(player_id), name |-> Text(name),
     playback_state |-> Absent, powered |-> Absent, volume_level |-> Absent,
     volume_muted |-> Absent, current_media |-> Absent, current_item_id |-> Absent]

MaxPlayers == 2      \* longest device list the server returns

\* the injective sequences of at most n elements of S
SeqsUpTo(S, n) ==
    UNION { { q \in [1 .. k -> S] : \A i, j \in 1 .. k : i # j => q[i] # q[j] } : k \in 0 .. n }

PlayersBody(players) == [text |-> "[players]", json |-> PyList(players)]

(***************************************************************************)
(* The player resolver, MusicAssistantSkill._get_player_id.  The skill's   *)
(* module is not among the sources: the resolver follows section 4.2 of    *)
(* the specification, on top of the client's get_players.                  *)
(***************************************************************************)
UpperCase ==
    <<"A", "B", "C", "D", "E", "F", "G", "H", "I", "J", "K", "L", "M",
      "N", "O", "P", "Q", "R", "S", "T", "U", "V", "W", "X", "Y", "Z">>
LowerCase ==
    <<"a", "b", "c", "d", "e", "f", "g", "h", "i", "j", "k", "l", "m",
      "n", "o", "p", "q", "r", "s", "t", "u", "v", "w", "x", "y", "z">>

\* str.lower() on one character
LowerChar(c) ==
    IF \E i \in DOMAIN UpperCase : UpperCase[i] = c
    THEN LowerCase[CHOOSE i \in DOMAIN UpperCase : UpperCase[i] = c]
    ELSE c

lower(chars) == [i \in DOMAIN chars |-> LowerChar(chars[i])]

\* Python's `needle in hay` for strings
contains(needle, hay) ==
    \E i \in 0 .. (Len(hay) - Len(needle)) : SubSeq(hay, i + 1, i + Len(needle)) = needle

RECURSIVE first_match(_, _, _)
\* the id of the first device from index i on whose name contains the hint,
\* both lowered; None when there is none
first_match(players, location, i) ==
    IF i > Len(players) THEN PyNone
    ELSE IF contains(lower(location.chars), lower(players[i].name.chars))
         THEN players[i].player_id
         ELSE first_match(players, location, i + 1)

\* the configured default is looked at only when the device list is not empty
get_player_id_list_first(location, default, players) ==
    IF players.kind = "raise" THEN Return(PyNone)
    ELSE LET devices == players.value.items
             match == IF Truthy(location) THEN first_match(devices, location, 1) ELSE PyNone
         IN IF match # PyNone THEN Return(match)
            ELSE IF devices = <<>> THEN Return(PyNone)
            ELSE IF Truthy(default) THEN Return(default)
            ELSE Return(devices[1].player_id)

\* the resolver: players is what get_players returned or raised
get_player_id(location, default, players) ==
    IF players.kind = "raise" THEN Return(PyNone)
    ELSE LET devices == players.value.items
             match == IF Truthy(location) THEN first_match(devices, location, 1) ELSE PyNone
         IN IF match # PyNone THEN Return(match)
            ELSE IF Truthy(default) THEN Return(default)
            ELSE IF devices # <<>> THEN Return(devices[1].player_id)
            ELSE Return(PyNone)

\* the devices of the resolver's server: two names contain "a" in some case,
\* two contain "b"
ResolverDevices ==
    { Player("mapping", "p1", <<"A", "b">>),
      Player("mapping", "p2", <<"b", "a">>),
      Player("mapping", "p3", <<"c">>) }

LocationHints ==
    { PyNone, Text(<<>>), Text(<<"a">>), Text(<<"B">>), Text(<<"b", "A">>), Text(<<"d">>) }

DefaultPlayers == { PyNone, PyStr(""), PyStr("D") }

\* a status other than 200 is raised on before the body is read, so those
\* responses carry one error text or, for 500, a short device list
PlayersResponses ==
    {NetworkFailure}
        \cup { Response(s, GarbageBody) : s \in OtherStatusCodes }
        \cup { Response(500, PlayersBody(q)) : q \in SeqsUpTo(ResolverDevices, 1) }
        \cup { Response(200, b) :
                 b \in {NullBody, GarbageBody}
                         \cup { PlayersBody(q) : q \in SeqsUpTo(ResolverDevices, MaxPlayers) } }

GetPlayerId ==
    /\ post_count < MaxPosts
    /\ \E location \in LocationHints, message_id \in uuid4, response \in PlayersResponses :
          LET r == send_command("players/all", <<>>, message_id, response)
          IN Finish("_get_player_id", [location |-> location], r.sent, <<response>>,
                    get_player_id(location, default_player, get_players_of(r.result)))
    /\ ClientUnchanged

InitResolve ==
    /\ ClientInit(<<"h">>, "None")
    /\ default_player \in DefaultPlayers
    /\ sent_ids = {}
    /\ post_count = 0
    /\ last = NoCall

NextResolve == GetPlayerId

SpecResolve == InitResolve /\ [][NextResolve]_vars

(***************************************************************************)
(* Claims about the resolver, checked under SpecResolve.                   *)
(***************************************************************************)
IsResolve == last.op = "_get_player_id"

\* the server answered the enumeration with status 200 and a list of devices
Enumerated ==
    /\ IsResolve
    /\ Succeeded(last.responses[1])
    /\ last.responses[1].json.t = "list"

ServerDevices == last.responses[1].json.items

HintGiven == last.inputs.location # PyNone /\ last.inputs.location.chars # <<>>

\* the name contains the hint when case is ignored
NameHasHint(name, hint) ==
    \E off \in 0 .. (Len(name) - Len(hint)) :
        \A k \in 1 .. Len(hint) : LowerChar(name[off + k]) = LowerChar(hint[k])

\* the places in the server's list of the devices whose name has the hint
MatchingPlaces ==
    IF HintGiven
    THEN { i \in DOMAIN ServerDevices :
             NameHasHint(ServerDevices[i].name.chars, last.inputs.location.chars) }
    ELSE {}

DefaultSet == default_player # PyNone /\ default_player # PyStr("")

\* C6: with a non-empty hint and at least one device whose name contains it,
\* case ignored, the resolver returns the id of the first such device in the
\* server's order, whatever the default and however many devices match.
C6_FirstMatchWins ==
    (Enumerated /\ MatchingPlaces # {}) =>
        \E i \in MatchingPlaces :
            /\ \A j \in MatchingPlaces : i <= j
            /\ last.result = Return(ServerDevices[i].player_id)

\* C6's case: two devices match, the first match is not the first device, the
\* hint matches only when case is ignored, and a default is configured
C6_Witness ==
    /\ Enumerated
    /\ Cardinality(MatchingPlaces) = 2
    /\ DefaultSet
    /\ last.inputs.location = Text(<<"B">>)
    /\ ServerDevices[1].player_id = PyStr("p2")
    /\ last.result = Return(PyStr("p2"))

\* C7: with no matching device, or no hint, the resolver returns the
\* configured default when one is set and non-empty; only with no default
\* does it return the id of the first device of the list.
C7_FallbackChain ==
    (Enumerated /\ MatchingPlaces = {}) =>
        /\ (DefaultSet => last.result = Return(default_player))
        /\ (~DefaultSet /\ ServerDevices # <<>>
              => last.result = Return(ServerDevices[1].player_id))

\* C7's case: the hint matches nothing, the default is the empty string and
\* the first of two devices is returned
C7_Witness ==
    /\ Enumerated
    /\ last.inputs.location = Text(<<"d">>)
    /\ default_player = PyStr("")
    /\ Len(ServerDevices) = 2
    /\ last.result = Return(ServerDevices[1].player_id)

\* C8 as claimed: an empty device list resolves to absent whatever the hint
\* and whether or not a default is configured.
C8_Claim_EmptyListAbsent ==
    (Enumerated /\ ServerDevices = <<>>) => last.result = Return(PyNone)

\* C8, amended: an empty device list resolves to absent, whatever the hint,
\* when no non-empty default is configured, and to the default when one is.
C8_EmptyListDefaultOrAbsent ==
    (Enumerated /\ ServerDevices = <<>>) =>
        last.result = IF DefaultSet THEN Return(default_player) ELSE Return(PyNone)

\* C8's case: empty list, a hint given, no default
C8_Witness ==
    /\ Enumerated
    /\ ServerDevices = <<>>
    /\ HintGiven
    /\ default_player = PyNone
    /\ last.result = Return(PyNone)

\* the enumeration failed: no response, a status other than success, a body
\* that does not decode, or a body that is no list
EnumerationFailed ==
    /\ IsResolve
    /\ LET response == last.responses[1]
       IN \/ response.net = "error"
          \/ response.status_code < 200
          \/ response.status_code > 299
          \/ response.json = Undecodable
          \/ response.json = PyNone

\* C9: when enumerating the devices fails the resolver returns absent, for
\* every hint and every default, and it never raises.
C9_EnumerationErrorAbsorbed ==
    /\ (IsResolve => last.result.kind = "return")
    /\ (EnumerationFailed => last.result = Return(PyNone))

\* C9's case: status 500 whose body lists a device the hint matches, and a
\* default configured
C9_Witness ==
    /\ IsResolve
    /\ last.responses[1].net = "ok"
    /\ last.responses[1].status_code = 500
    /\ last.responses[1].json.t = "list"
    /\ MatchingPlaces # {}
    /\ DefaultSet
    /\ last.result = Return(PyNone)

(***************************************************************************)
(* The state extractor: _find_player_by_id, the _extract_* helpers and     *)
(* get_player_state.                                                       *)
(***************************************************************************)
PyBool(b) == [t |-> "bool", b |-> b]
PyInt(n) == [t |-> "int", n |-> n]
\* an enum member, which has a .value
PyEnum(value) == [t |-> "enum", value |-> value]
\* f"{artist} - {title}"
ArtistTitle(artist, title) == [t |-> "fstr", artist |-> artist, sep |-> " - ", title |-> title]

\* hasattr(o, a): a plain mapping has none of the attributes the code asks for
hasattr(o, a) == o.repr = "object" /\ o[a] # Absent
\* getattr(o, a, default)
getattr(o, a, default) == IF hasattr(o, a) THEN o[a] ELSE default
\* `a in o` for a mapping o
haskey(o, a) == o.repr = "mapping" /\ o[a] # Absent

\* str(v) for the values a playback_state holds
str(v) == IF v.t = "none" THEN PyStr("None") ELSE v

RECURSIVE find_player_in(_, _, _)
\* the loop of _find_player_by_id from index i on.  For an object that does
\* not match, `"player_id" in player` raises TypeError: the object is no
\* container.
find_player_in(players, player_id, i) ==
    IF i > Len(players) THEN Return(PyNone)
    ELSE LET player == players[i]
         IN IF hasattr(player, "player_id") /\ player.player_id = PyStr(player_id)
            THEN Return(player)
            ELSE IF player.repr = "object" THEN RaiseType
            ELSE IF haskey(player, "player_id") /\ player.player_id = PyStr(player_id)
                 THEN Return(player)
                 ELSE find_player_in(players, player_id, i + 1)

\* _find_player_by_id, given what get_players returned or raised
find_player_by_id(players, player_id) ==
    IF players.kind = "raise" THEN players
    ELSE find_player_in(players.value.items, player_id, 1)

extract_playback_state(player) ==
    IF ~hasattr(player, "playback_state") THEN PyStr("unknown")
    ELSE LET state == player.playback_state
         IN IF state.t = "enum" THEN PyStr(state.value) ELSE str(state)

extract_track_from_media(player) ==
    IF ~(hasattr(player, "current_media") /\ Truthy(player.current_media)) THEN PyNone
    ELSE LET media == player.current_media
         IN IF ~(hasattr(media, "title") /\ Truthy(media.title)) THEN PyNone
            ELSE IF hasattr(media, "artist") /\ Truthy(media.artist)
                 THEN ArtistTitle(media.artist.s, media.title.s)
                 ELSE media.title

\* the queue step without its guard: the queue's items are asked for whatever
\* the device reports
queue_is_consulted_always(player) == TRUE

\* whether _extract_track_from_queue asks the server for the queue's items
queue_is_consulted(player) ==
    hasattr(player, "current_item_id") /\ Truthy(player.current_item_id)

\* the queue is asked for under the id of the item the device is on
queue_key_current_item(player) == player.current_item_id.s

\* the queue_id _extract_track_from_queue asks under: player.player_id
queue_key(player) == player.player_id.s

\* _extract_track_from_queue after the guard, given what
\* get_player_queue_items returned or raised; the bare except turns every
\* error into None
extract_track_from_queue(queue_items) ==
    IF queue_items.kind = "raise" THEN PyNone
    ELSE LET items == queue_items.value
         IN IF items.t = "none" THEN PyNone
            ELSE IF items.t = "dict" THEN PyNone      \* queue_items[0]: KeyError
            ELSE IF items.items = <<>> THEN PyNone
            ELSE LET item == items.items[1]
                 IN IF hasattr(item, "name") /\ Truthy(item.name) THEN item.name
                    ELSE IF hasattr(item, "media_item") /\ Truthy(item.media_item)
                         THEN getattr(item.media_item, "name", PyNone)
                         ELSE PyNone

NoTrack == PyStr("No track")

\* the dict get_player_state builds for a found player
snapshot(player, current_track) ==
    PyDict([state |-> extract_playback_state(player),
            powered |-> getattr(player, "powered", PyBool(TRUE)),
            volume_level |-> getattr(player, "volume_level", PyNone),
            volume_muted |-> getattr(player, "volume_muted", PyBool(FALSE)),
            current_track |-> current_track,
            player_name |-> getattr(player, "name", PyStr("Unknown"))])

\* _extract_current_track, given what get_player_queue_items returns or
\* raises should the queue be consulted: the media step, then the queue step,
\* then the sentinel
extract_current_track(player, queue_items) ==
    LET from_media == extract_track_from_media(player)
    IN IF Truthy(from_media) THEN from_media
       ELSE IF ~queue_is_consulted(player) THEN NoTrack
       ELSE LET from_queue == extract_track_from_queue(queue_items)
            IN IF Truthy(from_queue) THEN from_queue ELSE NoTrack

\* the queue step without its try/except: an error of the queue-items request
\* leaves get_player_state
player_state_unguarded(player, queue_items) ==
    IF /\ ~Truthy(extract_track_from_media(player))
       /\ queue_is_consulted(player)
       /\ queue_items.kind = "raise"
    THEN queue_items
    ELSE Return(snapshot(player, extract_current_track(player, queue_items)))

\* what get_player_state returns for a found player
player_state(player, queue_items) ==
    Return(snapshot(player, extract_current_track(player, queue_items)))

(***************************************************************************)
(* The devices and queues of the extractor's server.                       *)
(***************************************************************************)
Media(repr, title, artist) == [t |-> "media", repr |-> repr, title |-> title, artist |-> artist]
QueueItem(repr, name, media_item) ==
    [t |-> "item", repr |-> repr, name |-> name, media_item |-> media_item]
MediaItem(repr, name) == [t |-> "media_item", repr |-> repr, name |-> name]

\* device profiles: what a device reports besides its id
Playing(repr, player_id) ==
    [t |-> "player", repr |-> repr, player_id |-> PyStr(player_id),
     name |-> Text(<<"A", "b">>), playback_state |-> PyStr("playing"),
     powered |-> PyBool(FALSE), volume_level |-> PyInt(150), volume_muted |-> PyBool(TRUE),
     current_media |-> Media(repr, PyStr("Song"), PyStr("Artist")),
     current_item_id |-> PyStr("item-1")]

Queued(repr, player_id) ==
    [t |-> "player", repr |-> repr, player_id |-> PyStr(player_id),
     name |-> Text(<<"b", "a">>), playback_state |-> PyEnum("paused"),
     powered |-> Absent, volume_level |-> PyInt(50), volume_muted |-> Absent,
     current_media |-> Media(repr, PyStr(""), Absent),
     current_item_id |-> PyStr("item-2")]

Bare(repr, player_id) ==
    [t |-> "player", repr |-> repr, player_id |-> PyStr(player_id),
     name |-> Absent, playback_state |-> Absent,
     powered |-> Absent, volume_level |-> Absent, volume_muted |-> Absent,
     current_media |-> Absent, current_item_id |-> Absent]

\* a device in a state the client has no name for, with an out-of-range volume
Odd(repr, player_id) ==
    [t |-> "player", repr |-> repr, player_id |-> PyStr(player_id),
     name |-> Text(<<"c">>), playback_state |-> PyStr("buffering"),
     powered |-> PyBool(TRUE), volume_level |-> PyInt(-5), volume_muted |-> PyBool(FALSE),
     current_media |-> PyNone, current_item_id |-> PyStr("item-3")]

Reprs == {"object", "mapping"}

StateDevices ==
    { Playing(r, "p1") : r \in Reprs }
        \cup { Odd(r, "p1") : r \in Reprs }
        \cup { Queued("object", "p2"), Bare("object", "p2") }

\* the device lists: at most MaxPlayers devices, no id twice
StateDeviceLists ==
    { q \in SeqsUpTo(StateDevices, MaxPlayers) :
        \A i, j \in DOMAIN q : i # j => q[i].player_id # q[j].player_id }

StatePlayersResponses ==
    { NetworkFailure, Response(200, NullBody), Response(200, GarbageBody),
      Response(500, GarbageBody) }
        \cup { Response(200, PlayersBody(q)) : q \in StateDeviceLists }

QueueItems ==
    { QueueItem(r, PyStr("Queued Song"), Absent) : r \in Reprs }
        \cup { QueueItem("object", Absent, MediaItem(r, PyStr("Nested Song"))) : r \in Reprs }
        \cup { QueueItem("object", PyStr(""), PyNone) }

QueueResponses ==
    { NetworkFailure, Response(200, NullBody), Response(200, GarbageBody),
      Response(500, GarbageBody),
      Response(200, [text |-> "[]", json |-> PyList(<<>>)]) }
        \cup { Response(200, [text |-> "[items]", json |-> PyList(<<item>>)]) :
                 item \in QueueItems }

\* the ids get_player_state is asked about: two the server knows, one it does not
QueriedIds == {"p1", "p2", "p9"}

\* the limit _extract_track_from_queue passes, and get_player_queue_items' default offset
QueueLimit == 1
QueueOffset == 0

GetPlayerState ==
    /\ post_count < MaxPosts
    /\ \E player_id \in QueriedIds, id1 \in uuid4, response1 \in StatePlayersResponses :
          LET r1 == send_command("players/all", <<>>, id1, response1)
              found == find_player_by_id(get_players_of(r1.result), player_id)
              inputs == [player_id |-> player_id]
          IN IF found.kind = "raise"
             THEN Finish("get_player_state", inputs, r1.sent, <<response1>>, found)
             ELSE IF ~Truthy(found.value)
             THEN Finish("get_player_state", inputs, r1.sent, <<response1>>, Return(PyNone))
             ELSE LET player == found.value
                  IN IF Truthy(extract_track_from_media(player))
                        \/ ~queue_is_consulted(player)
                     THEN Finish("get_player_state", inputs, r1.sent, <<response1>>,
                                 player_state(player, Return(PyNone)))
                     ELSE \E id2 \in uuid4 \ {id1}, response2 \in QueueResponses :
                            LET call == get_player_queue_items(queue_key(player),
                                                               QueueLimit, QueueOffset)
                                r2 == send_command(call.command, call.args, id2, response2)
                            IN Finish("get_player_state", inputs, r1.sent \o r2.sent,
                                      <<response1, response2>>,
                                      player_state(player, r2.result))
    /\ ClientUnchanged

InitState ==
    /\ ClientInit(<<"h">>, "None")
    /\ default_player = PyNone
    /\ sent_ids = {}
    /\ post_count = 0
    /\ last = NoCall

NextState == GetPlayerState

SpecState == InitState /\ [][NextState]_vars

(***************************************************************************)
(* Claims about the state extractor, checked under SpecState.              *)
(***************************************************************************)
IsGetPlayerState == last.op = "get_player_state"

\* the device list was fetched: status 200 and a list of devices
ListFetched ==
    /\ IsGetPlayerState
    /\ Succeeded(last.responses[1])
    /\ last.responses[1].json.t = "list"

FetchedDevices == last.responses[1].json.items

\* no device of the fetched list has the id that was asked for
NoDeviceHasId ==
    \A i \in DOMAIN FetchedDevices :
        FetchedDevices[i].player_id # PyStr(last.inputs.player_id)

\* C10 as claimed: get_player_state fetches the device list again and, when
\* no device of it has the id, returns absent without raising, whether the
\* devices are attribute-bearing objects or mappings.
C10_Claim_UnknownDeviceAbsent ==
    /\ (IsGetPlayerState => last.sent[1].json.command = "players/all")
    /\ (ListFetched /\ NoDeviceHasId => last.result = Return(PyNone))

\* what the queue-items request can hand to _extract_track_from_queue
QueueAnswers ==
    { send_command("player_queues/items", <<>>, 1, response).result :
        response \in QueueResponses }

\* the call found a device and returned its snapshot
Found ==
    /\ ListFetched
    /\ last.result.kind = "return"
    /\ last.result.value # PyNone

\* the device _find_player_by_id returned: the first of the list with the id
TheDevice ==
    LET places == { i \in DOMAIN FetchedDevices :
                      FetchedDevices[i].player_id = PyStr(last.inputs.player_id) }
    IN FetchedDevices[CHOOSE i \in places : \A j \in places : i <= j]

\* the answer the queue step worked with, when it asked
QueueAnswerUsed ==
    IF Len(last.responses) = 2
    THEN send_command("player_queues/items", <<>>, 1, last.responses[2]).result
    ELSE Return(PyNone)

\* the same device record in the given representation
AsRepr(device, repr) ==
    [device EXCEPT !.repr = repr,
                   !.current_media = IF @.t = "media" THEN [@ EXCEPT !.repr = repr] ELSE @]

\* C11 as claimed: the snapshot get_player_state returns for a device is the
\* snapshot it returns for the same data in the other representation
\* (attribute-bearing object or key/value mapping), whatever the queue answers.
C11_Claim_RepresentationIndependent ==
    Found =>
        /\ last.result = player_state(TheDevice, QueueAnswerUsed)
        /\ \A repr \in Reprs, queue_items \in QueueAnswers :
              player_state(AsRepr(TheDevice, repr), queue_items)
                 = player_state(TheDevice, queue_items)

\* the fields of the snapshot the call returned
Snapshot == last.result.value.fields

\* the playback states the specification enumerates
PlaybackStates == {"playing", "paused", "stopped", "idle", "unknown"}

\* the device's raw state field as a string, "" when it reports none
RawState(device) ==
    LET state == device.playback_state
    IN IF state.t = "enum" THEN state.value
       ELSE IF state.t = "str" THEN state.s
       ELSE ""

\* C12 as claimed: the state of every snapshot is one of playing, paused,
\* stopped, idle, unknown, and it is unknown whenever the device's raw state
\* is absent or is none of these.
C12_Claim_StateEnumerated ==
    Found =>
        /\ Snapshot.state.t = "str"
        /\ Snapshot.state.s \in PlaybackStates
        /\ (RawState(TheDevice) \notin PlaybackStates => Snapshot.state.s = "unknown")

\* the device reports a current-media record with a non-empty title
MediaTitled(device) ==
    /\ device.current_media.t = "media"
    /\ Truthy(device.current_media.title)

\* the device reports a current queue-item id
QueueItemReported(device) == Truthy(device.current_item_id)

\* C13 as claimed: for a found device that reports a current-media record
\* with a non-empty title the current track is "<artist> - <title>" when the
\* record has a non-empty artist and the title alone otherwise, and no
\* queue-items request is made.
C13_Claim_MediaStep ==
    (Found /\ MediaTitled(TheDevice)) =>
        LET media == TheDevice.current_media
        IN /\ Snapshot.current_track =
                 IF Truthy(media.artist) THEN ArtistTitle(media.artist.s, media.title.s)
                 ELSE media.title
           /\ Len(last.sent) = 1

\* the queue-items request was answered with status 200 and a list
QueueFetched ==
    /\ Len(last.responses) = 2
    /\ Succeeded(last.responses[2])
    /\ last.responses[2].json.t = "list"

QueueItemsFetched == last.responses[2].json.items

\* the track the queue's first item names: its own name when non-empty, else
\* the name of its nested media item when present, else none
ItemTrack(item) ==
    IF Truthy(item.name) THEN item.name
    ELSE IF Truthy(item.media_item) /\ Truthy(item.media_item.name) THEN item.media_item.name
    ELSE PyNone

\* C14 as claimed: for a found device whose current-media step yields nothing
\* and which reports a current queue-item id, the extractor requests the
\* queue's items with limit 1, and the current track is the first item's
\* name if non-empty, else its nested media item's name if present; with an
\* empty queue or neither name it is "No track".
C14_Claim_QueueStep ==
    (Found /\ ~MediaTitled(TheDevice) /\ QueueItemReported(TheDevice)) =>
        /\ Len(last.sent) = 2
        /\ last.sent[2].json.command = "player_queues/items"
        /\ last.sent[2].json.args.queue_id = TheDevice.player_id.s
        /\ last.sent[2].json.args.limit = 1
        /\ QueueFetched =>
              Snapshot.current_track =
                  IF QueueItemsFetched = <<>> THEN NoTrack
                  ELSE IF Truthy(ItemTrack(QueueItemsFetched[1]))
                       THEN ItemTrack(QueueItemsFetched[1])
                       ELSE NoTrack

\* the value the snapshot carries for a field: the device's when it reports
\* one, the default otherwise
ReportedOr(value, default) == IF value = Absent THEN default ELSE value

\* the queue-items request of the queue step failed: no response, a status
\* outside 2xx, or a body that does not decode
QueueFailed ==
    /\ IsGetPlayerState
    /\ Len(last.responses) = 2
    /\ LET response == last.responses[2]
       IN \/ response.net = "error"
          \/ response.status_code < 200
          \/ response.status_code > 299
          \/ response.json = Undecodable

\* C15: when the queue-items request of the queue step fails, get_player_state
\* does not raise: it returns a snapshot of six fields whose current track is
\* "No track" and whose other fields are the device record's.
C15_QueueFailureAbsorbed ==
    QueueFailed =>
        /\ last.result.kind = "return"
        /\ last.result.value.t = "dict"
        /\ DOMAIN Snapshot =
              {"state", "powered", "volume_level", "volume_muted", "current_track",
               "player_name"}
        /\ Snapshot.current_track = NoTrack
        /\ Snapshot.state = IF TheDevice.playback_state = Absent THEN PyStr("unknown")
                            ELSE PyStr(RawState(TheDevice))
        /\ Snapshot.powered = ReportedOr(TheDevice.powered, PyBool(TRUE))
        /\ Snapshot.volume_level = ReportedOr(TheDevice.volume_level, PyNone)
        /\ Snapshot.volume_muted = ReportedOr(TheDevice.volume_muted, PyBool(FALSE))
        /\ Snapshot.player_name = ReportedOr(TheDevice.name, PyStr("Unknown"))

\* C15's case: the queue-items request got no response, after a device list
\* of two devices, and the snapshot carries the device's volume and name
C15_Witness ==
    /\ QueueFailed
    /\ last.responses[2].net = "error"
    /\ Len(FetchedDevices) = 2
    /\ last.result.kind = "return"
    /\ Snapshot.current_track = NoTrack
    /\ Snapshot.volume_level = PyInt(50)
    /\ Snapshot.player_name = Text(<<"b", "a">>)

\* C16 as claimed: the snapshot of every found device has exactly the six
\* fields state, powered, volume level, muted, current track and display
\* name; powered is true and muted is false when the device omits them, and
\* the reported value otherwise.
C16_Claim_AssembledFields ==
    Found =>
        /\ DOMAIN Snapshot =
              {"state", "powered", "volume_level", "volume_muted", "current_track",
               "player_name"}
        /\ Snapshot.powered = ReportedOr(TheDevice.powered, PyBool(TRUE))
        /\ Snapshot.volume_muted = ReportedOr(TheDevice.volume_muted, PyBool(FALSE))

\* a volume level within the range, or absent
VolumeInRange(v) == v = PyNone \/ (v.t = "int" /\ v.n \in 0 .. 100)

\* C17 as claimed: the volume level of every snapshot get_player_state
\* returns is absent or within 0..100, whatever value the server reports.
C17_Claim_VolumeInRange ==
    Found => VolumeInRange(Snapshot.volume_level)

(***************************************************************************)
(* The volume parser, MusicAssistantSkill._parse_volume_level.  The skill  *)
(* module is not among the sources: the parser follows section 4.4 of the  *)
(* specification, rule by rule and in its order.  A string is the sequence *)
(* of its characters.                                                      *)
(***************************************************************************)
MaxDigits == 3       \* longest digit string handed to the parser

Digits == <<"0", "1", "2", "3", "4", "5", "6", "7", "8", "9">>

isdigit(c) == \E i \in DOMAIN Digits : Digits[i] = c

\* the value of one digit character
DigitValue(c) == (CHOOSE i \in DOMAIN Digits : Digits[i] = c) - 1

\* str.isdigit(): not empty and digits only
IsDigits(s) == s # <<>> /\ \A i \in DOMAIN s : isdigit(s[i])

RECURSIVE to_int(_)
\* int(s) for a digit string
to_int(s) ==
    IF s = <<>> THEN 0
    ELSE 10 * to_int(SubSeq(s, 1, Len(s) - 1)) + DigitValue(s[Len(s)])

\* the parsed number is handed on as it is
clamp_none(n) == n

\* clamp to [0,100]
clamp(n) == IF n > 100 THEN 100 ELSE IF n < 0 THEN 0 ELSE n

PercentSign == <<"%">>
PercentWord == <<"p", "e", "r", "c", "e", "n", "t">>

endswith(s, suffix) ==
    Len(s) >= Len(suffix) /\ SubSeq(s, Len(s) - Len(suffix) + 1, Len(s)) = suffix

\* s without the suffix it ends with and without one separating space
before_suffix(s, suffix) ==
    LET front == SubSeq(s, 1, Len(s) - Len(suffix))
    IN IF front # <<>> /\ front[Len(front)] = " "
       THEN SubSeq(front, 1, Len(front) - 1)
       ELSE front

\* the numeric portion of "<digits>%", "<digits> percent" and the like; empty
\* when s has neither ending
numeric_portion(s) ==
    IF endswith(s, PercentSign) THEN before_suffix(s, PercentSign)
    ELSE IF endswith(s, PercentWord) THEN before_suffix(s, PercentWord)
    ELSE <<>>

\* the word table with two levels exchanged
VolumeWords_exchanged ==
    { [word |-> <<"m", "u", "t", "e">>, level |-> 0],
      [word |-> <<"h", "a", "l", "f">>, level |-> 75],
      [word |-> <<"l", "o", "u", "d">>, level |-> 50],
      [word |-> <<"m", "a", "x">>, level |-> 100] }

\* the recognized words and their levels
VolumeWords ==
    { [word |-> <<"m", "u", "t", "e">>, level |-> 0],
      [word |-> <<"h", "a", "l", "f">>, level |-> 50],
      [word |-> <<"l", "o", "u", "d">>, level |-> 75],
      [word |-> <<"m", "a", "x">>, level |-> 100] }

\* the parser without rule 1: a value that is no string is handled as one
parse_volume_level_unguarded(text) ==
    IF text.t # "text" THEN RaiseType
    ELSE LET s == text.chars
         IN IF IsDigits(s) THEN Return(PyInt(clamp(to_int(s))))
            ELSE IF IsDigits(numeric_portion(s))
                 THEN Return(PyInt(clamp(to_int(numeric_portion(s)))))
            ELSE IF \E w \in VolumeWords : w.word = lower(s)
                 THEN Return(PyInt((CHOOSE w \in VolumeWords : w.word = lower(s)).level))
            ELSE Return(PyNone)

\* _parse_volume_level(text), rules 1 to 5
parse_volume_level(text) ==
    IF text.t # "text" THEN Return(PyNone)
    ELSE LET s == text.chars
         IN IF s = <<>> THEN Return(PyNone)
            ELSE IF IsDigits(s) THEN Return(PyInt(clamp(to_int(s))))
            ELSE IF IsDigits(numeric_portion(s))
                 THEN Return(PyInt(clamp(to_int(numeric_portion(s)))))
            ELSE IF \E w \in VolumeWords : w.word = lower(s)
                 THEN Return(PyInt((CHOOSE w \in VolumeWords : w.word = lower(s)).level))
            ELSE Return(PyNone)

(***************************************************************************)
(* What the parser is handed.                                              *)
(***************************************************************************)
\* the digits the digit strings are made of
DigitChars == {"0", "1", "5"}

\* every digit string of one to MaxDigits of these digits
DigitStrings == UNION { [1 .. k -> DigitChars] : k \in 1 .. MaxDigits }

\* what may follow the digits: nothing, "%" or "percent", with or without a
\* separating space
NumericEndings ==
    { <<>>, PercentSign, <<" ">> \o PercentSign, PercentWord, <<" ">> \o PercentWord }

\* str.upper() on one character
UpperChar(c) ==
    IF \E i \in DOMAIN LowerCase : LowerCase[i] = c
    THEN UpperCase[CHOOSE i \in DOMAIN LowerCase : LowerCase[i] = c]
    ELSE c

\* a word in every mix of letter cases
CaseVariants(word) ==
    { [i \in DOMAIN word |-> IF i \in U THEN UpperChar(word[i]) ELSE word[i]] :
        U \in SUBSET DOMAIN word }

\* strings that are neither a number form nor a recognized word
OtherTexts ==
    { <<>>,
      <<"i", "n", "v", "a", "l", "i", "d">>,
      <<"I", "N", "V", "A", "L", "I", "D">>,
      <<"m", "u", "t">>, <<"m", "u", "t", "e", "d">>, <<"m", "a", "x", " ">>,
      <<"l", "o", "w">>,
      <<" ">>, PercentSign, PercentWord, <<" ">> \o PercentSign,
      <<"-", "5">>, <<"5", ".", "5">>, <<"5", "x">>, <<"x", "5">>, <<"5", " ", "5">>,
      <<"5", "%", "%">>, <<"%", "5">>, <<" ", "5">>, <<"5", " ">>,
      <<"5", "p", "c", "t">>, <<"m", "u", "t", "e", "5">> }

\* values that are no strings
NonStrings == { PyNone, PyInt(50), PyBool(TRUE), PyList(<<>>) }

VolumeInputs ==
    NonStrings
        \cup { Text(d \o e) : d \in DigitStrings, e \in NumericEndings }
        \cup { Text(v) : v \in UNION { CaseVariants(w.word) : w \in VolumeWords } }
        \cup { Text(s) : s \in OtherTexts }

\* one call of the parser: pure, nothing is posted and nothing is kept
ParseVolumeLevel ==
    /\ \E text \in VolumeInputs :
          Finish("_parse_volume_level", [text |-> text], <<>>, <<>>, parse_volume_level(text))
    /\ ClientUnchanged

InitParse ==
    /\ ClientInit(<<"h">>, "None")
    /\ default_player = PyNone
    /\ sent_ids = {}
    /\ post_count = 0
    /\ last = NoCall

NextParse == ParseVolumeLevel

SpecParse == InitParse /\ [][NextParse]_vars

(***************************************************************************)
(* Claims about the volume parser, checked under SpecParse.                *)
(***************************************************************************)
IsParse == last.op = "_parse_volume_level"

RECURSIVE Pow10(_)
Pow10(k) == IF k = 0 THEN 1 ELSE 10 * Pow10(k - 1)

RECURSIVE PlaceSum(_, _)
\* the number a digit string denotes: the sum of its digits times their
\* place values, from place i on
PlaceSum(d, i) ==
    IF i > Len(d) THEN 0
    ELSE DigitValue(d[i]) * Pow10(Len(d) - i) + PlaceSum(d, i + 1)

Denotes(d) == PlaceSum(d, 1)

\* C18: for every digit string d denoting n, parse(d), parse(d%), parse(d %),
\* parse(dpercent) and parse(d percent) all return min(n, 100): values above
\* 100 saturate at 100 and 0 parses to 0.
C18_NumericForms ==
    IsParse =>
        \A d \in DigitStrings, e \in NumericEndings :
            last.inputs.text = Text(d \o e) =>
                last.result = Return(PyInt(IF Denotes(d) > 100 THEN 100 ELSE Denotes(d)))

\* C18's case: "150 percent" saturates at 100
C18_Witness ==
    /\ IsParse
    /\ last.inputs.text = Text(<<"1", "5", "0", " ">> \o PercentWord)
    /\ last.result = Return(PyInt(100))

\* a string without any digit
NonNumeric(chars) == \A i \in DOMAIN chars : ~isdigit(chars[i])

\* the string is the word in some mix of letter cases
IsWord(chars, word) == chars \in CaseVariants(word)

\* C19: in any letter case mute parses to 0, half to 50, loud to 75 and max
\* to 100, and no other string without digits yields a value.
C19_Words ==
    (IsParse /\ last.inputs.text.t = "text") =>
        LET chars == last.inputs.text.chars
        IN /\ IsWord(chars, <<"m", "u", "t", "e">>) => last.result = Return(PyInt(0))
           /\ IsWord(chars, <<"h", "a", "l", "f">>) => last.result = Return(PyInt(50))
           /\ IsWord(chars, <<"l", "o", "u", "d">>) => last.result = Return(PyInt(75))
           /\ IsWord(chars, <<"m", "a", "x">>) => last.result = Return(PyInt(100))
           /\ ( /\ NonNumeric(chars)
                /\ ~IsWord(chars, <<"m", "u", "t", "e">>)
                /\ ~IsWord(chars, <<"h", "a", "l", "f">>)
                /\ ~IsWord(chars, <<"l", "o", "u", "d">>)
                /\ ~IsWord(chars, <<"m", "a", "x">>) )
                  => last.result = Return(PyNone)

\* C19's case: "LoUd", in mixed case, parses to 75
C19_Witness ==
    /\ IsParse
    /\ last.inputs.text = Text(<<"L", "o", "U", "d">>)
    /\ last.result = Return(PyInt(75))

\* the input is one of the forms section 4.4 recognizes: digits with one of
\* the numeric endings, or a recognized word in some mix of letter cases
Recognized(text) ==
    /\ text.t = "text"
    /\ \/ \E d \in DigitStrings, e \in NumericEndings : text.chars = d \o e
       \/ \E w \in VolumeWords : IsWord(text.chars, w.word)

\* C20: the parser is total and pure: it never raises and posts nothing, its
\* result is absent or an integer within 0..100, and it is absent for every
\* absent, empty, non-string or otherwise unrecognized input.
C20_Total ==
    IsParse =>
        /\ last.result.kind = "return"
        /\ VolumeInRange(last.result.value)
        /\ last.sent = <<>>
        /\ ~Recognized(last.inputs.text) => last.result = Return(PyNone)

\* C20's case: an integer, which is no string, is handed in and absent comes back
C20_Witness ==
    /\ IsParse
    /\ last.inputs.text = PyInt(50)
    /\ last.result = Return(PyNone)

(***************************************************************************)
(* Claims about the command wrappers, checked under Spec.                  *)
(***************************************************************************)
\* the request a one-request call sent
Request == last.sent[1].json

\* the value the caller gave for a keyword argument, or the default
ValueOr(argument, default) == IF argument = Omitted THEN default ELSE argument.v

\* C21: each command wrapper sends the command name of the interface table
\* with exactly the listed argument keys, bound to the caller's values:
\* step defaults to 5, muted to true, and player_queues/items carries
\* queue_id, limit and offset.
C21_CommandVocabulary ==
    LET i == last.inputs
    IN /\ last.op = "queue_command_play" =>
             Request.command = "player_queues/play"
             /\ Request.args = [queue_id |-> i.queue_id]
       /\ last.op = "queue_command_pause" =>
             Request.command = "player_queues/pause"
             /\ Request.args = [queue_id |-> i.queue_id]
       /\ last.op = "queue_command_next" =>
             Request.command = "player_queues/next"
             /\ Request.args = [queue_id |-> i.queue_id]
       /\ last.op = "queue_command_previous" =>
             Request.command = "player_queues/previous"
             /\ Request.args = [queue_id |-> i.queue_id]
       /\ last.op = "player_command_power_on" =>
             Request.command = "players/player_command_power_on"
             /\ Request.args = [player_id |-> i.player_id]
       /\ last.op = "player_command_power_off" =>
             Request.command = "players/player_command_power_off"
             /\ Request.args = [player_id |-> i.player_id]
       /\ last.op = "player_command_volume_set" =>
             Request.command = "players/cmd/volume_set"
             /\ Request.args = [player_id |-> i.player_id, volume_level |-> i.volume]
       /\ last.op = "player_command_volume_up" =>
             Request.command = "players/cmd/volume_up"
             /\ Request.args = [player_id |-> i.player_id, step |-> ValueOr(i.step, 5)]
       /\ last.op = "player_command_volume_down" =>
             Request.command = "players/cmd/volume_down"
             /\ Request.args = [player_id |-> i.player_id, step |-> ValueOr(i.step, 5)]
       /\ last.op = "player_command_volume_mute" =>
             Request.command = "players/cmd/volume_mute"
             /\ Request.args = [player_id |-> i.player_id, muted |-> ValueOr(i.muted, TRUE)]
       /\ last.op = "get_player_queue_items" =>
             Request.command = "player_queues/items"
             /\ DOMAIN Request.args = {"queue_id", "limit", "offset"}
             /\ Request.args.queue_id = i.queue_id
             /\ (i.limit # Omitted => Request.args.limit = i.limit.v)
             /\ (i.offset # Omitted => Request.args.offset = i.offset.v)
       /\ last.op = "get_active_queue" =>
             Request.command = "player_queues/get_active_queue"
             /\ Request.args = [player_id |-> i.player_id]
       /\ last.op = "play_media" =>
             Request.command = "player_queues/play_media"
             /\ DOMAIN Request.args = {"queue_id", "media", "option", "radio_mode"}
             /\ Request.args.queue_id = i.queue_id
             /\ Request.args.media = i.media
             /\ (i.option # Omitted => Request.args.option = i.option.v)
             /\ (i.radio_mode # Omitted => Request.args.radio_mode = i.radio_mode.v)

\* C21's case: volume_up called without a step, as the second call, sends
\* step 5
C21_Witness ==
    /\ last.op = "player_command_volume_up"
    /\ last.inputs.step = Omitted
    /\ Request.command = "players/cmd/volume_up"
    /\ Request.args.step = 5
    /\ post_count = 2

\* the caller supplied a non-empty list of media types
MediaTypesSupplied(media_types) == media_types.t = "list" /\ media_types.items # <<>>

\* C22: search_media sends music/search with search_query and limit (5 when
\* the caller gives none) always present, and with media_types if and only
\* if the caller supplied a non-empty list of media types, which it then
\* carries; what the server answers is returned unchanged.
C22_SearchArguments ==
    last.op = "search_media" =>
        /\ Request.command = "music/search"
        /\ {"search_query", "limit"} \subseteq DOMAIN Request.args
        /\ DOMAIN Request.args \subseteq {"search_query", "limit", "media_types"}
        /\ Request.args.search_query = last.inputs.query
        /\ Request.args.limit = ValueOr(last.inputs.limit, 5)
        /\ ("media_types" \in DOMAIN Request.args)
              <=> MediaTypesSupplied(last.inputs.media_types)
        /\ MediaTypesSupplied(last.inputs.media_types)
              => Request.args.media_types = last.inputs.media_types
        /\ Succeeded(last.responses[1]) => last.result = Return(last.responses[1].json)
        /\ last.result.kind = "return" => last.result.value = last.responses[1].json

\* C22's case: a search for artists with the default limit, made as the
\* second call, came back with the server's mapping
C22_Witness ==
    /\ last.op = "search_media"
    /\ last.inputs.media_types = PyList(<<"artist">>)
    /\ last.inputs.limit = Omitted
    /\ Request.args.limit = 5
    /\ last.result.kind = "return"
    /\ last.result.value.t = "dict"
    /\ post_count = 2

\* C23: when the uri of a Media reference that the search just made returned
\* is passed into play_media, the reference is the one the server answered
\* with and the media argument of the player_queues/play_media request is its
\* uri exactly; queue_id, option and radio_mode are the caller's values.
C23_UriRoundTrip ==
    [][ (last.op = "search_media" /\ last.result.kind = "return"
            /\ last'.op = "play_media") =>
          \A reference \in References(last.result.value) :
              last'.inputs.media = reference.uri =>
                  /\ reference \in References(last.responses[1].json)
                  /\ last'.sent[1].json.command = "player_queues/play_media"
                  /\ last'.sent[1].json.args.media = reference.uri
                  /\ last'.sent[1].json.args.queue_id = last'.inputs.queue_id
                  /\ last'.sent[1].json.args.option = ValueOr(last'.inputs.option, "play")
                  /\ last'.sent[1].json.args.radio_mode
                        = ValueOr(last'.inputs.radio_mode, FALSE) ]_vars

\* C23's case: the track the search returned went into play_media with
\* option replace and radio mode on
C23_Witness ==
    /\ last.op = "play_media"
    /\ last.inputs.media = "spotify://track/AbC%20d/"
    /\ last.inputs.option = Given("replace")
    /\ last.inputs.radio_mode = Given(TRUE)
    /\ Request.args.media = "spotify://track/AbC%20d/"
    /\ post_count = 2

(***************************************************************************)
(* The pause handler, MusicAssistantSkill.handle_pause.  The skill module  *)
(* is not among the sources: the handler follows section 7 of the          *)
(* specification (an absent resolver result becomes a spoken "could not    *)
(* find" message and no command) on top of the resolver and the client's   *)
(* queue_command_pause.  What the handler does when the pause command      *)
(* itself fails is not specified: it either lets the error out or speaks.  *)
(***************************************************************************)
\* the handler speaks nothing when no player is found
could_not_find_player_silent == <<>>

\* what the handler speaks when no player is found
could_not_find_player ==
    <<[dialog |-> "generic_could_not", data |-> [thing |-> "find a player."]]>>

\* what the handler speaks after the pause command
paused == <<[dialog |-> "paused", data |-> <<>>]>>

\* the outcome of a handler: how it ended and what it spoke
Handled(result, dialogs) == [kind |-> result.kind, result |-> result, dialogs |-> dialogs]

\* the hints the handler's message carries
MessageLocations == { PyNone, Text(<<"a">>) }

\* what the handler's enumeration is answered with: failures, the empty
\* list, one device, and two devices of which the hint matches the second
HandlePlayersResponses ==
    { NetworkFailure, Response(500, GarbageBody) }
        \cup { Response(200, PlayersBody(q)) : q \in SeqsUpTo(ResolverDevices, 1) }
        \cup { Response(200, PlayersBody(<<Player("mapping", "p3", <<"c">>),
                                           Player("mapping", "p2", <<"b", "a">>)>>)) }

\* what the handler's pause command is answered with
PauseResponses == { NetworkFailure, Response(200, NullBody), Response(500, GarbageBody) }

HandlePause ==
    /\ post_count < MaxPosts
    /\ \E location \in MessageLocations, id1 \in uuid4,
          response1 \in HandlePlayersResponses :
          LET r1 == send_command("players/all", <<>>, id1, response1)
              player_id == get_player_id(location, default_player,
                                         get_players_of(r1.result)).value
              inputs == [location |-> location]
          IN IF ~Truthy(player_id)
             THEN Finish("handle_pause", inputs, r1.sent, <<response1>>,
                         Handled(Return(PyNone), could_not_find_player))
             ELSE \E id2 \in uuid4 \ {id1}, response2 \in PauseResponses,
                     caught \in BOOLEAN :
                    LET call == queue_command_pause(player_id.s)
                        r2 == send_command(call.command, call.args, id2, response2)
                    IN Finish("handle_pause", inputs, r1.sent \o r2.sent,
                              <<response1, response2>>,
                              IF r2.result.kind = "return"
                              THEN Handled(Return(PyNone), paused)
                              ELSE IF caught
                                   THEN Handled(Return(PyNone), <<>>)
                                   ELSE Handled(r2.result, <<>>))
    /\ ClientUnchanged

InitHandle ==
    /\ ClientInit(<<"h">>, "None")
    /\ default_player \in DefaultPlayers
    /\ sent_ids = {}
    /\ post_count = 0
    /\ last = NoCall

NextHandle == HandlePause

SpecHandle == InitHandle /\ [][NextHandle]_vars

(***************************************************************************)
(* Claims about the pause handler, checked under SpecHandle.               *)
(***************************************************************************)
IsHandlePause == last.op = "handle_pause"

\* what the resolver returned to the handler
ResolverAnswer ==
    get_player_id(last.inputs.location, default_player,
                  get_players_of(send_command("players/all", <<>>, 1,
                                              last.responses[1]).result))

\* C24: when the resolver returns absent the pause handler sends no command
\* (the resolver's enumeration is the call's only request), speaks exactly
\* one "could not find a player" dialog and does not raise; when a player is
\* resolved it sends exactly one pause command, keyed by the resolved id.
C24_PauseOnResolution ==
    IsHandlePause =>
        /\ last.sent[1].json.command = "players/all"
        /\ IF ResolverAnswer = Return(PyNone)
           THEN /\ Len(last.sent) = 1
                /\ last.result.kind = "return"
                /\ Len(last.result.dialogs) = 1
                /\ last.result.dialogs[1].dialog = "generic_could_not"
                /\ last.result.dialogs[1].data.thing = "find a player."
           ELSE /\ Len(last.sent) = 2
                /\ last.sent[2].json.command = "player_queues/pause"
                /\ last.sent[2].json.args = [queue_id |-> ResolverAnswer.value.s]

\* C24's case: the enumeration failed and no default is configured, so the
\* resolver returned absent to a handler whose message carried a hint
C24_Witness ==
    /\ IsHandlePause
    /\ last.inputs.location = Text(<<"a">>)
    /\ last.responses[1].net = "error"
    /\ ResolverAnswer = Return(PyNone)
    /\ Len(last.sent) = 1
    /\ last.result.dialogs = could_not_find_player

(***************************************************************************)
(* Claims about the requests of the state extractor, checked under         *)
(* SpecState.                                                              *)
(***************************************************************************)
\* the call asked the server for the queue's items
QueueAsked == IsGetPlayerState /\ Len(last.sent) = 2

\* C25: the player_queues/items request of get_player_state(p) is keyed by
\* p, the player id of the device found, and by nothing else: its arguments
\* are queue_id p, limit 1 and offset 0, so neither the device's display name
\* nor its current queue-item id is sent, and the players/all request before
\* it carries no argument at all.
C25_PlayerIdIsTheKey ==
    /\ IsGetPlayerState => last.sent[1].json.args = <<>>
    /\ QueueAsked =>
          /\ last.sent[2].json.command = "player_queues/items"
          /\ last.sent[2].json.args =
                [queue_id |-> last.inputs.player_id, limit |-> 1, offset |-> 0]
          /\ last.sent[2].json.args.queue_id = TheDevice.player_id.s
          /\ last.sent[2].json.args.queue_id # TheDevice.current_item_id.s

\* C25's case: the second device of the list, on queue item item-2 and with a
\* display name, is asked about and its queue is fetched under its id p2
C25_Witness ==
    /\ QueueAsked
    /\ Len(FetchedDevices) = 2
    /\ last.inputs.player_id = "p2"
    /\ TheDevice.current_item_id = PyStr("item-2")
    /\ TheDevice.name # Absent
    /\ last.sent[2].json.args.queue_id = "p2"

\* the commands that read the server's state and change nothing on it
ReadingCommands == {"players/all", "player_queues/items"}

\* some device of the fetched list has the id that was asked for
DeviceListed ==
    \E i \in DOMAIN FetchedDevices :
        FetchedDevices[i].player_id = PyStr(last.inputs.player_id)

truth(v) ==
    IF v.t = "bool" THEN v.b
    ELSE IF v.t = "int" THEN v.n # 0
    ELSE Truthy(v)

\* _format_status_emoji: emoji_map.get(state.lower(), unknown), the emojis
\* by name; the states of the snapshots are lower-case already
format_status_emoji(state) ==
    CASE state = "playing" -> "emoji_play"
      [] state = "paused" -> "emoji_pause"
      [] state = "stopped" -> "emoji_stop"
      [] state = "idle" -> "emoji_sleep"
      [] OTHER -> "emoji_question"

\* _format_power_display
format_power_display(powered) == IF truth(powered) THEN "emoji_plug" ELSE "emoji_plug_cross"

\* _format_volume_display: the mute emoji, then the level or a question mark
format_volume_display(volume_level, volume_muted) ==
    [emoji |-> IF truth(volume_muted) THEN "emoji_muted" ELSE "emoji_speaker",
     level |-> IF volume_level # PyNone THEN volume_level ELSE PyStr("?")]

\* one call of self.log
LogLine(level, action, text) == [level |-> level, action |-> action, text |-> text]

\* show_current_state without its try/except: an error of get_player_state
\* reaches the caller
show_current_state_uncaught(state, action) ==
    IF state.kind = "raise" THEN [result |-> state, log |-> <<>>]
    ELSE [result |-> Return(PyNone), log |-> <<>>]

\* show_current_state, given what get_player_state returned or raised: what
\* it returns and what it logs
show_current_state(state, action) ==
    IF state.kind = "raise"
    THEN [result |-> Return(PyNone),
          log |-> << LogLine("exception", action, <<"Error getting state", state.type>>) >>]
    ELSE IF ~Truthy(state.value)
    THEN [result |-> Return(PyNone),
          log |-> << LogLine("warning", action, <<"Could not get player state">>) >>]
    ELSE LET fields == state.value.fields
             status_emoji == format_status_emoji(fields.state.s)
             power_display == format_power_display(fields.powered)
             volume_display == format_volume_display(fields.volume_level, fields.volume_muted)
         IN [result |-> Return(PyNone),
             log |-> << LogLine("info", action,
                                <<status_emoji, fields.state.s, power_display, volume_display>>),
                        LogLine("info", "", <<"Current", fields.current_track>>) >>]

\* the action argument of show_current_state and its default
DefaultAction == ""
Actions == {Omitted, Given("Volume up")}

\* what players/all is answered with: no response, the bodies that are no
\* device list, each device alone, and a list whose first device is an
\* object with another id
ShowPlayersResponses ==
    { NetworkFailure, Response(200, NullBody), Response(200, GarbageBody),
      Response(500, GarbageBody),
      Response(200, PlayersBody(<<Odd("object", "p1"), Queued("object", "p2")>>)) }
        \cup { Response(200, PlayersBody(<<device>>)) : device \in StateDevices }

ShowCurrentState ==
    /\ post_count < MaxPosts
    /\ \E player_id \in QueriedIds, action \in Actions, id1 \in uuid4,
          response1 \in ShowPlayersResponses :
          LET r1 == send_command("players/all", <<>>, id1, response1)
              found == find_player_by_id(get_players_of(r1.result), player_id)
              inputs == [player_id |-> player_id, action |-> action]
              Shown(sent, responses, state) ==
                  LET shown == show_current_state(state, Default(action, DefaultAction))
                  IN /\ sent_ids' = sent_ids \cup { sent[i].json.message_id : i \in DOMAIN sent }
                     /\ post_count' = post_count + Len(sent)
                     /\ last' = [op |-> "show_current_state", inputs |-> inputs,
                                 sent |-> sent, responses |-> responses,
                                 result |-> shown.result,
                                 repeat |-> (last.op = "show_current_state"
                                             /\ last.inputs = inputs),
                                 state |-> state, log |-> shown.log]
          IN IF found.kind = "raise"
             THEN Shown(r1.sent, <<response1>>, found)
             ELSE IF ~Truthy(found.value)
             THEN Shown(r1.sent, <<response1>>, Return(PyNone))
             ELSE LET player == found.value
                  IN IF Truthy(extract_track_from_media(player))
                        \/ ~queue_is_consulted(player)
                     THEN Shown(r1.sent, <<response1>>, player_state(player, Return(PyNone)))
                     ELSE \E id2 \in uuid4 \ {id1}, response2 \in QueueResponses :
                            LET call == get_player_queue_items(queue_key(player),
                                                               QueueLimit, QueueOffset)
                                r2 == send_command(call.command, call.args, id2, response2)
                            IN Shown(r1.sent \o r2.sent, <<response1, response2>>,
                                     player_state(player, r2.result))
    /\ ClientUnchanged

InitShow ==
    /\ ClientInit(<<"h">>, "None")
    /\ default_player = PyNone
    /\ sent_ids = {}
    /\ post_count = 0
    /\ last = NoCall

NextShow == ShowCurrentState

SpecShow == InitShow /\ [][NextShow]_vars

(***************************************************************************)
(* Claim about show_current_state, checked under SpecShow.                 *)
(***************************************************************************)
IsShow == last.op = "show_current_state"

\* the client's fields are what construction made them
ClientKept ==
    /\ ClientInit(<<"h">>, "None")
    /\ default_player = PyNone

\* C27: show_current_state never raises to its caller.  Whether
\* get_player_state returned a snapshot, returned absent, or failed with an
\* error of the dispatcher (no response, a status other than 200, a body that
\* is no JSON) or of the device search, show_current_state returns None, and
\* after any number of calls the client's fields are as construction left
\* them.
C27_ShowNeverRaises ==
    /\ IsShow => last.result = Return(PyNone)
    /\ ClientKept

\* C27's case: get_player_state failed because the server answered with
\* status 500, and show_current_state logged the error and returned None
C27_Witness ==
    /\ IsShow
    /\ last.responses[1] = Response(500, GarbageBody)
    /\ last.state.kind = "raise"
    /\ last.log[1].level = "exception"
    /\ last.result = Return(PyNone)

====
